---------------------------- MODULE Spec2Model ----------------------------
(***************************************************************************)
(* Kanji Helper browser extension: the popup controller (popup.js), the   *)
(* background service worker (background.ts / background.js) and the      *)
(* content script (content.js), as one state machine.                     *)
(*                                                                         *)
(* Text is a sequence of Unicode code points.  Time on a page is counted  *)
(* in seconds.  Date.now() is the variable now.                           *)
(***************************************************************************)
EXTENDS Integers, Sequences, FiniteSets, TLC

(***************************************************************************)
(* Bounds of the model (not program constants).                           *)
(***************************************************************************)
\* translate requests the popup may issue
MaxRequests == 2
\* times the popup is closed and opened again
MaxReopens == 1
\* storage writes that may be in flight together
MaxPending == 2
\* largest value of Date.now()
MaxClock == 1
\* record calls of the history-store harness (SpecHistory)
MaxRecords == 52
\* clear calls of the history-store harness (SpecHistory)
MaxClears == 1
\* context-menu clicks on the page
MaxMenuClicks == 3
\* seconds the page is followed for
MaxPageTime == 12
\* changes of a settings toggle
MaxToggles == 2
\* code points of a text handed to translateText
MaxLen == 3

(***************************************************************************)
(* Program constants.                                                      *)
(***************************************************************************)
\* popup.js: if (this.translationHistory.length > 50) ... slice(0, 50)
HistoryLimit == 50
\* setTimeout(..., 10000) of the page popup, in seconds
AutoHideDelay == 10

Min(a, b) == IF a < b THEN a ELSE b

(***************************************************************************)
(* The dictionaries.  A reading is kept as its code points, a meaning as  *)
(* its (ASCII) string.                                                     *)
(***************************************************************************)
\* content.js: const kanjiDictionary = { ... }
kanjiDictionaryKeys ==
    {26085, 26412, 20154, 23398, 26657, 29983, 20808, 24180, 26376, 26178, 38291, 27700, 28779, 22303, 26408, 37329, 23665, 24029, 22823, 23567, 28450, 23383, 31169, 35486, 21193, 24375}

kanjiDictionary ==
    [c \in kanjiDictionaryKeys |->
      CASE
        c = 26085 -> [readings |-> <<<<12491, 12481>>, <<12402>>>>, meanings |-> <<"sun", "day">>, type |-> "kanji"]  \* U+65E5
     []
        c = 26412 -> [readings |-> <<<<12507, 12531>>, <<12418, 12392>>>>, meanings |-> <<"book", "origin">>, type |-> "kanji"]  \* U+672C
     []
        c = 20154 -> [readings |-> <<<<12472, 12531>>, <<12402, 12392>>>>, meanings |-> <<"person", "people">>, type |-> "kanji"]  \* U+4EBA
     []
        c = 23398 -> [readings |-> <<<<12460, 12463>>, <<12414, 12394>>>>, meanings |-> <<"study", "learn">>, type |-> "kanji"]  \* U+5B66
     []
        c = 26657 -> [readings |-> <<<<12467, 12454>>>>, meanings |-> <<"school">>, type |-> "kanji"]  \* U+6821
     []
        c = 29983 -> [readings |-> <<<<12475, 12452>>, <<12356>>>>, meanings |-> <<"life", "birth">>, type |-> "kanji"]  \* U+751F
     []
        c = 20808 -> [readings |-> <<<<12475, 12531>>, <<12373, 12365>>>>, meanings |-> <<"before", "ahead">>, type |-> "kanji"]  \* U+5148
     []
        c = 24180 -> [readings |-> <<<<12493, 12531>>, <<12392, 12375>>>>, meanings |-> <<"year">>, type |-> "kanji"]  \* U+5E74
     []
        c = 26376 -> [readings |-> <<<<12466, 12484>>, <<12388, 12365>>>>, meanings |-> <<"month", "moon">>, type |-> "kanji"]  \* U+6708
     []
        c = 26178 -> [readings |-> <<<<12472>>, <<12392, 12365>>>>, meanings |-> <<"time">>, type |-> "kanji"]  \* U+6642
     []
        c = 38291 -> [readings |-> <<<<12459, 12531>>, <<12354, 12356, 12384>>>>, meanings |-> <<"interval", "between">>, type |-> "kanji"]  \* U+9593
     []
        c = 27700 -> [readings |-> <<<<12473, 12452>>, <<12415, 12378>>>>, meanings |-> <<"water">>, type |-> "kanji"]  \* U+6C34
     []
        c = 28779 -> [readings |-> <<<<12459>>, <<12402>>>>, meanings |-> <<"fire">>, type |-> "kanji"]  \* U+706B
     []
        c = 22303 -> [readings |-> <<<<12489>>, <<12388, 12385>>>>, meanings |-> <<"earth", "soil">>, type |-> "kanji"]  \* U+571F
     []
        c = 26408 -> [readings |-> <<<<12514, 12463>>, <<12365>>>>, meanings |-> <<"tree", "wood">>, type |-> "kanji"]  \* U+6728
     []
        c = 37329 -> [readings |-> <<<<12461, 12531>>, <<12363, 12397>>>>, meanings |-> <<"gold", "money">>, type |-> "kanji"]  \* U+91D1
     []
        c = 23665 -> [readings |-> <<<<12469, 12531>>, <<12420, 12414>>>>, meanings |-> <<"mountain">>, type |-> "kanji"]  \* U+5C71
     []
        c = 24029 -> [readings |-> <<<<12475, 12531>>, <<12363, 12431>>>>, meanings |-> <<"river">>, type |-> "kanji"]  \* U+5DDD
     []
        c = 22823 -> [readings |-> <<<<12480, 12452>>, <<12362, 12362>>>>, meanings |-> <<"big", "large">>, type |-> "kanji"]  \* U+5927
     []
        c = 23567 -> [readings |-> <<<<12471, 12519, 12454>>, <<12385, 12356>>>>, meanings |-> <<"small", "little">>, type |-> "kanji"]  \* U+5C0F
     []
        c = 28450 -> [readings |-> <<<<12459, 12531>>>>, meanings |-> <<"Chinese", "Han">>, type |-> "kanji"]  \* U+6F22
     []
        c = 23383 -> [readings |-> <<<<12472>>>>, meanings |-> <<"character", "letter">>, type |-> "kanji"]  \* U+5B57
     []
        c = 31169 -> [readings |-> <<<<12471>>, <<12431, 12383, 12375>>>>, meanings |-> <<"I", "private">>, type |-> "kanji"]  \* U+79C1
     []
        c = 35486 -> [readings |-> <<<<12468>>>>, meanings |-> <<"language", "word">>, type |-> "kanji"]  \* U+8A9E
     []
        c = 21193 -> [readings |-> <<<<12505, 12531>>>>, meanings |-> <<"diligence", "study">>, type |-> "kanji"]  \* U+52C9
     []
        c = 24375 -> [readings |-> <<<<12461, 12519, 12454>>, <<12388, 12424>>>>, meanings |-> <<"strong">>, type |-> "kanji"]  \* U+5F37
    ]

\* background.ts, translateText: const kanjiDict = { ... }
kanjiDictKeys ==
    {28450, 23383, 26085, 26412, 20154, 22823, 23567, 23665, 24029, 27700, 28779, 22303, 26408, 37329, 23398, 26657, 29983, 20808, 24180, 26376, 26178, 38291}

kanjiDict ==
    [c \in kanjiDictKeys |->
      CASE
        c = 28450 -> [reading |-> <<12363, 12435, 47, 12459, 12531>>, meaning |-> "Chinese character, man"]  \* U+6F22
     []
        c = 23383 -> [reading |-> <<12376, 47, 12472>>, meaning |-> "character, letter"]  \* U+5B57
     []
        c = 26085 -> [reading |-> <<12395, 12385, 47, 12491, 12481, 12289, 12402>>, meaning |-> "day, sun"]  \* U+65E5
     []
        c = 26412 -> [reading |-> <<12411, 12435, 47, 12507, 12531, 12289, 12418, 12392>>, meaning |-> "book, origin"]  \* U+672C
     []
        c = 20154 -> [reading |-> <<12376, 12435, 47, 12472, 12531, 12289, 12402, 12392>>, meaning |-> "person"]  \* U+4EBA
     []
        c = 22823 -> [reading |-> <<12384, 12356, 47, 12480, 12452, 12289, 12362, 12362>>, meaning |-> "big, large"]  \* U+5927
     []
        c = 23567 -> [reading |-> <<12375, 12423, 12358, 47, 12471, 12519, 12454, 12289, 12385, 12356>>, meaning |-> "small, little"]  \* U+5C0F
     []
        c = 23665 -> [reading |-> <<12373, 12435, 47, 12469, 12531, 12289, 12420, 12414>>, meaning |-> "mountain"]  \* U+5C71
     []
        c = 24029 -> [reading |-> <<12379, 12435, 47, 12475, 12531, 12289, 12363, 12431>>, meaning |-> "river"]  \* U+5DDD
     []
        c = 27700 -> [reading |-> <<12377, 12356, 47, 12473, 12452, 12289, 12415, 12378>>, meaning |-> "water"]  \* U+6C34
     []
        c = 28779 -> [reading |-> <<12363, 47, 12459, 12289, 12402>>, meaning |-> "fire"]  \* U+706B
     []
        c = 22303 -> [reading |-> <<12393, 47, 12489, 12289, 12388, 12385>>, meaning |-> "earth, soil"]  \* U+571F
     []
        c = 26408 -> [reading |-> <<12418, 12367, 47, 12514, 12463, 12289, 12365>>, meaning |-> "tree, wood"]  \* U+6728
     []
        c = 37329 -> [reading |-> <<12365, 12435, 47, 12461, 12531, 12289, 12363, 12397>>, meaning |-> "gold, money"]  \* U+91D1
     []
        c = 23398 -> [reading |-> <<12364, 12367, 47, 12460, 12463, 12289, 12414, 12394>>, meaning |-> "study, learn"]  \* U+5B66
     []
        c = 26657 -> [reading |-> <<12371, 12358, 47, 12467, 12454>>, meaning |-> "school"]  \* U+6821
     []
        c = 29983 -> [reading |-> <<12379, 12356, 47, 12475, 12452, 12289, 12356>>, meaning |-> "life, birth"]  \* U+751F
     []
        c = 20808 -> [reading |-> <<12379, 12435, 47, 12475, 12531, 12289, 12373, 12365>>, meaning |-> "previous, ahead"]  \* U+5148
     []
        c = 24180 -> [reading |-> <<12397, 12435, 47, 12493, 12531, 12289, 12392, 12375>>, meaning |-> "year"]  \* U+5E74
     []
        c = 26376 -> [reading |-> <<12370, 12388, 47, 12466, 12484, 12289, 12388, 12365>>, meaning |-> "month, moon"]  \* U+6708
     []
        c = 26178 -> [reading |-> <<12376, 47, 12472, 12289, 12392, 12365>>, meaning |-> "time"]  \* U+6642
     []
        c = 38291 -> [reading |-> <<12363, 12435, 47, 12459, 12531, 12289, 12354, 12356, 12384>>, meaning |-> "interval, between"]  \* U+9593
    ]


(***************************************************************************)
(* Character classification and the two lookups.                          *)
(***************************************************************************)
\* mutant of IsWhitespace: nothing is skipped
IsWhitespaceNever(c) == FALSE

\* JavaScript's /\s/ on one code point
IsWhitespace(c) ==
    \/ c \in {9, 10, 11, 12, 13, 32, 160, 5760, 8232, 8233, 8239, 8287, 12288, 65279}
    \/ (c >= 8192 /\ c <= 8202)

\* char.charCodeAt(0): the first UTF-16 code unit of the code point
CharCodeAt0(c) ==
    IF c >= 65536 THEN 55296 + ((c - 65536) \div 1024) ELSE c

\* mutant of getCharacterType: the ranges without their first code points
getCharacterTypeOpenRanges(c) ==
    LET code == CharCodeAt0(c) IN
    IF code > 12352 /\ code <= 12447 THEN "hiragana"
    ELSE IF code > 12448 /\ code <= 12543 THEN "katakana"
    ELSE IF code > 19968 /\ code <= 40879 THEN "kanji"
    ELSE "other"

\* content.js: getCharacterType(char)
getCharacterType(c) ==
    LET code == CharCodeAt0(c) IN
    IF code >= 12352 /\ code <= 12447 THEN "hiragana"
    ELSE IF code >= 12448 /\ code <= 12543 THEN "katakana"
    ELSE IF code >= 19968 /\ code <= 40879 THEN "kanji"
    ELSE "other"

\* mutant of CharInfo: inDictionary is set from the type
CharInfoFlagFromType(c) ==
    LET type == getCharacterType(c) IN
    [character |-> c, type |-> type,
     readings |-> IF c \in kanjiDictionaryKeys
                  THEN kanjiDictionary[c].readings ELSE <<>>,
     meanings |-> IF c \in kanjiDictionaryKeys
                  THEN kanjiDictionary[c].meanings
                  ELSE IF type = "kanji" THEN <<"Not in dictionary">>
                  ELSE IF type = "hiragana" THEN <<"Hiragana character">>
                  ELSE IF type = "katakana" THEN <<"Katakana character">>
                  ELSE <<>>,
     inDictionary |-> type = "kanji"]

\* content.js, translateText: the charInfo built for one character
CharInfo(c) ==
    LET type == getCharacterType(c) IN
    IF c \in kanjiDictionaryKeys
    THEN [character |-> c, type |-> type,
          readings |-> kanjiDictionary[c].readings,
          meanings |-> kanjiDictionary[c].meanings,
          inDictionary |-> TRUE]
    ELSE [character |-> c, type |-> type,
          readings |-> <<>>,
          meanings |-> IF type = "kanji" THEN <<"Not in dictionary">>
                       ELSE IF type = "hiragana" THEN <<"Hiragana character">>
                       ELSE IF type = "katakana" THEN <<"Katakana character">>
                       ELSE <<>>,
          inDictionary |-> FALSE]

\* content.js: translateText(text), the list of charInfo
RECURSIVE ContentTranslateText(_)
ContentTranslateText(text) ==
    IF text = <<>> THEN <<>>
    ELSE IF IsWhitespace(Head(text)) THEN ContentTranslateText(Tail(text))
    ELSE <<CharInfo(Head(text))>> \o ContentTranslateText(Tail(text))

\* background.ts, translateText: the records pushed for one character
\* ("Unknown" is kept as its code points, like every reading)
BackgroundChar(c) ==
    IF c \in kanjiDictKeys
    THEN <<[character |-> c, reading |-> kanjiDict[c].reading,
            meaning |-> kanjiDict[c].meaning]>>
    ELSE IF c >= 12352 /\ c <= 12447
    THEN <<[character |-> c, reading |-> <<c>>, meaning |-> "Hiragana character"]>>
    ELSE IF c >= 12448 /\ c <= 12543
    THEN <<[character |-> c, reading |-> <<c>>, meaning |-> "Katakana character"]>>
    ELSE IF c >= 19968 /\ c <= 40879
    THEN <<[character |-> c, reading |-> <<85, 110, 107, 110, 111, 119, 110>>,
            meaning |-> "Kanji character (not in dictionary)"]>>
    ELSE <<>>

\* background.ts, translateText: the loop over the characters
RECURSIVE BackgroundTranslations(_)
BackgroundTranslations(text) ==
    IF text = <<>> THEN <<>>
    ELSE BackgroundChar(Head(text)) \o BackgroundTranslations(Tail(text))

\* background.ts: translateText(text), the result object
BackgroundTranslateText(text, time) ==
    [originalText |-> text,
     translations |-> BackgroundTranslations(text),
     timestamp |-> time]

(***************************************************************************)
(* Inputs.                                                                 *)
(***************************************************************************)
\* what the user types into the popup (trimmed, not empty): "a", U+65E5
Texts == {<<97>>, <<26085>>}

\* the two background scripts of the repository
Builds == {"background.ts", "background.js"}

\* what the messaging channel may hand the popup instead of a result
Faults == {"lastError", "undefined", "malformed"}

(***************************************************************************)
(* State.                                                                  *)
(***************************************************************************)
VARIABLES
    build,              \* which background script is the service worker
    now,                \* Date.now()
    initPc,             \* where initializePopup is
    settings,           \* this.settings
    translationHistory, \* this.translationHistory
    resultsView,        \* what #translationResults shows
    issued,             \* translateText calls of the popup so far
    requests,           \* the translateText calls waiting at await this.sendMessage
    storage,            \* chrome.storage.local
    pendingWrites,      \* chrome.storage.local.set calls in flight
    lastLog,            \* what the last step gave console.error, or "none"
    uncaught,           \* an exception left a popup handler
    reopens,            \* times the popup was opened again
    recordCalls,        \* saveTranslationToHistory calls so far
    clears,             \* clearHistory calls so far
    baseSeq,            \* while fromEmpty: recordCalls when the history was last empty
    fromEmpty,          \* the in-memory history grew from an empty one
    lastHistoryOp,      \* the last history operation called: record or clear
    lastApplied,        \* the operation whose write storage applied last
    loadedFrom,         \* lastApplied when this popup loaded its history
    lastSettled,        \* what the last step did to a storage write, or "none"
    rendered,           \* the character cards in #translationResults
    settingsCalls,      \* saveSettings calls so far
    savedSettings,      \* this.settings at the last saveSettings call
    appliedSettingsCall, \* the saveSettings call whose write storage applied last
    lookupText,         \* the text translateText is called with
    lookupResult        \* what translateText returned for it

popupVars ==
    <<build, now, initPc, settings, translationHistory, resultsView, issued,
      requests, storage, pendingWrites, lastLog, uncaught, reopens, recordCalls,
      clears, baseSeq, fromEmpty, lastHistoryOp, lastApplied, loadedFrom,
      lastSettled, rendered, settingsCalls, savedSettings, appliedSettingsCall,
      lookupText, lookupResult>>

settingsGhosts == <<settingsCalls, savedSettings, appliedSettingsCall>>

lookupVars == <<lookupText, lookupResult>>

(***************************************************************************)
(* The page: the content script's document, the messages on their way to   *)
(* it and its timers.                                                      *)
(*   pageTime     seconds since the page was loaded                        *)
(*   menuClicks   context-menu clicks so far                               *)
(*   tabMessages  chrome.tabs.sendMessage messages not yet received        *)
(*   popups       the popup elements attached to document.body, in         *)
(*                document order                                           *)
(*   timers       pending setTimeout callbacks                             *)
(*   created      popup elements created so far                            *)
(*   lastReceived what the content script's listeners received last         *)
(***************************************************************************)
VARIABLES pageTime, menuClicks, tabMessages, popups, timers, created,
          lastReceived

pageVars ==
    <<pageTime, menuClicks, tabMessages, popups, timers, created,
      lastReceived>>

\* document.getElementById('kanji-helper-popup') finds nothing
NoPopup == [element |-> 0]

\* document.getElementById: the first element with the id in document order
GetElementById(elements) ==
    IF elements = <<>> THEN NoPopup ELSE Head(elements)

\* the element with id kanji-helper-popup in the document
pagePopup == GetElementById(popups)

\* element.remove(): the document without the element
Remove(elements, element) ==
    SelectSeq(elements, LAMBDA e : e.element # element)

\* selections the context menu is used on: U+65E5, "a", a space
Selections == {<<26085>>, <<97>>, <<32>>}

PageInit ==
    /\ pageTime = 0
    /\ menuClicks = 0
    /\ tabMessages = {}
    /\ popups = <<>>
    /\ timers = {}
    /\ created = 0
    /\ lastReceived = [click |-> 0]

\* constructor: this.settings
DefaultSettings == [autoHide |-> TRUE, showReadings |-> TRUE, showMeanings |-> TRUE]

Undefined == [undefined |-> TRUE]
NoReply == [kind |-> "none"]
Absent == [present |-> FALSE]
Stored(v) == [present |-> TRUE, value |-> v]

\* a response of another shape: what background.js answers to getTabInfo
Malformed == [tabId |-> 1]

\* result.field, undefined when the object has no such property
Field(object, name) == IF name \in DOMAIN object THEN object[name] ELSE Undefined

RemoveAt(s, k) == SubSeq(s, 1, k - 1) \o SubSeq(s, k + 1, Len(s))

\* translateText has not been called
NoLookup == [called |-> FALSE]

\* the popup is opened over a storage area that holds the settings record
\* persisted (or Absent) and no history
PopupInitFrom(persisted) ==
    /\ build \in Builds
    /\ now = 0
    /\ initPc = "loadSettings"
    /\ settings = DefaultSettings
    /\ translationHistory = <<>>
    /\ resultsView = "empty"
    /\ issued = 0
    /\ requests = {}
    /\ storage = [translationHistory |-> Absent, kanjiHelperSettings |-> persisted]
    /\ pendingWrites = <<>>
    /\ lastLog = "none"
    /\ uncaught = FALSE
    /\ reopens = 0
    /\ recordCalls = 0
    /\ clears = 0
    /\ baseSeq = 0
    /\ fromEmpty = TRUE
    /\ lastHistoryOp = "none"
    /\ lastApplied = "none"
    /\ loadedFrom = "none"
    /\ lastSettled = "none"
    /\ rendered = <<>>
    /\ settingsCalls = 0
    /\ savedSettings = DefaultSettings
    /\ appliedSettingsCall = 0
    /\ lookupText = <<>>
    /\ lookupResult = NoLookup

\* the extension is installed: nothing is persisted
PopupInit == PopupInitFrom(Absent)

(***************************************************************************)
(* popup.js: the history store.                                            *)
(***************************************************************************)
\* saveTranslationToHistory: const historyEntry = { ... }
\* (seq, the ordinal of the call, is not in the code: it tells entries apart)
HistoryEntry(result) ==
    [originalText |-> Field(result, "originalText"),
     translations |-> Field(result, "translations"),
     timestamp |-> now,
     id |-> now,
     seq |-> recordCalls + 1]

\* mutant of Unshift: push, the entry goes to the end
UnshiftAsPush(h, e) == h \o <<e>>

\* this.translationHistory.unshift(historyEntry)
Unshift(h, e) == <<e>> \o h

\* mutant of Truncate: slice(0, 51)
TruncateKeepsOneMore(h) ==
    IF Len(h) > HistoryLimit THEN SubSeq(h, 1, HistoryLimit + 1) ELSE h

\* if (this.translationHistory.length > 50) ... = ... .slice(0, 50)
Truncate(h) == IF Len(h) > HistoryLimit THEN SubSeq(h, 1, HistoryLimit) ELSE h

HistoryWrite(h, op) ==
    [key |-> "translationHistory", value |-> h, op |-> op, live |-> TRUE]

\* saveTranslationToHistory(result), up to its await of chrome.storage.local.set
SaveTranslationToHistory(result) ==
    LET h == Truncate(Unshift(translationHistory, HistoryEntry(result))) IN
    /\ translationHistory' = h
    /\ pendingWrites' = Append(pendingWrites, HistoryWrite(h, "record"))
    /\ recordCalls' = recordCalls + 1
    /\ lastHistoryOp' = "record"

\* loadTranslationHistory: the history it leaves in memory
LoadTranslationHistory(ok) ==
    IF ok
    THEN IF storage.translationHistory.present
         THEN storage.translationHistory.value
         ELSE translationHistory
    ELSE <<>>

\* mutant of LoadSettings: { ...result.kanjiHelperSettings, ...this.settings }
LoadSettingsDefaultsWin(ok) == settings

\* loadSettings: the settings it leaves in memory
LoadSettings(ok) ==
    IF ok /\ storage.kanjiHelperSettings.present
    THEN [k \in DOMAIN settings |->
            IF k \in DOMAIN storage.kanjiHelperSettings.value
            THEN storage.kanjiHelperSettings.value[k] ELSE settings[k]]
    ELSE settings

\* the catch blocks of saveTranslationToHistory and clearHistory
FailureMessage(op) ==
    IF op = "record" THEN "Failed to save translation history:"
    ELSE IF op = "settings" THEN "Failed to save settings:"
    ELSE "Failed to clear history:"

\* mutant of OnWriteRejected: no catch block, the entry is taken back and the
\* rejection leaves the handler
OnWriteRejectedRethrows(w) ==
    [history |-> IF translationHistory = <<>> THEN <<>> ELSE Tail(translationHistory),
     settings |-> settings,
     lastLog |-> "none",
     uncaught |-> TRUE]

\* mutant of OnWriteRejected: a rejected write of the settings takes the
\* toggle back
OnWriteRejectedRevertsSettings(w) ==
    [history |-> translationHistory,
     settings |-> IF w.live /\ w.op = "settings" THEN DefaultSettings ELSE settings,
     lastLog |-> IF w.live THEN FailureMessage(w.op) ELSE "none",
     uncaught |-> uncaught]

\* what a rejected chrome.storage.local.set leaves: the catch block logs
\* (a write of a popup that was closed since has no catch block left to run)
OnWriteRejected(w) ==
    [history |-> translationHistory,
     settings |-> settings,
     lastLog |-> IF w.live THEN FailureMessage(w.op) ELSE "none",
     uncaught |-> uncaught]

(***************************************************************************)
(* popup.js: translateText.                                                *)
(***************************************************************************)
\* if (response && response.translations)
ResponseAccepted(response) ==
    response # Undefined /\ "translations" \in DOMAIN response

\* displayTranslationResults(result, container): what the container shows, or
\* "throws" when trans.type.toUpperCase() or trans.meanings.join() meets undefined
DisplayTranslationResults(result) ==
    LET ts == IF "translations" \in DOMAIN result
              THEN result.translations ELSE <<>> IN
    IF Len(ts) > 0
    THEN IF \E k \in 1..Len(ts) :
              "type" \notin DOMAIN ts[k] \/ "meanings" \notin DOMAIN ts[k]
         THEN "throws"
         ELSE "results"
    ELSE "noChars"

\* displayTranslationResults: the cards of the characters; the readings line is
\* there when the record has readings, the meanings line always
RenderCards(result) ==
    [k \in 1..Len(result.translations) |->
        [character |-> result.translations[k].character,
         type |-> result.translations[k].type,
         readings |-> IF /\ "readings" \in DOMAIN result.translations[k]
                         /\ Len(result.translations[k].readings) > 0
                      THEN result.translations[k].readings ELSE <<>>,
         meanings |-> result.translations[k].meanings]]

\* mutant of TranslateOutcome: no catch block, a failure leaves the container
\* as showLoading left it
TranslateOutcomeNoCatch(reply) ==
    IF /\ reply.kind = "response"
       /\ ResponseAccepted(reply.value)
       /\ DisplayTranslationResults(reply.value) # "throws"
    THEN DisplayTranslationResults(reply.value)
    ELSE "loading"

\* translateText after await this.sendMessage(...): what the try block does
TranslateOutcome(reply) ==
    IF reply.kind = "lastError" THEN "failed"
    ELSE IF ResponseAccepted(reply.value)
         THEN IF DisplayTranslationResults(reply.value) = "throws"
              THEN "failed"
              ELSE DisplayTranslationResults(reply.value)
         ELSE "failed"

\* mutant of TranslateSaves: the result is saved before it is displayed
TranslateSavesBeforeDisplay(reply) ==
    /\ reply.kind = "response"
    /\ ResponseAccepted(reply.value)

\* translateText: whether this.saveTranslationToHistory(response) is reached
TranslateSaves(reply) ==
    /\ reply.kind = "response"
    /\ ResponseAccepted(reply.value)
    /\ DisplayTranslationResults(reply.value) # "throws"

\* translate requests whose response may still lead to a storage write
OpenRequests == {r \in requests : r.state \in {"sent", "replied"}}

(***************************************************************************)
(* Actions of the popup.                                                   *)
(***************************************************************************)
\* mutant of ListenersAttached: setupEventListeners() runs in the constructor
ListenersAttachedAtConstruction == TRUE

\* initializePopup: this.setupEventListeners() comes after both awaits
ListenersAttached == initPc = "ready"

\* initializePopup: await this.loadSettings()
LoadSettingsDone(ok) ==
    /\ initPc = "loadSettings"
    /\ settings' = LoadSettings(ok)
    /\ lastLog' = IF ok THEN "none" ELSE "Failed to load settings:"
    /\ initPc' = "loadHistory"
    /\ lastSettled' = "none"
    /\ UNCHANGED <<rendered, settingsGhosts, lookupVars>>
    /\ UNCHANGED pageVars
    /\ UNCHANGED <<build, now, translationHistory, resultsView, issued,
                   requests, storage, pendingWrites, uncaught, reopens,
                   recordCalls, clears, baseSeq, fromEmpty, lastHistoryOp,
                   lastApplied, loadedFrom>>

\* initializePopup: await this.loadTranslationHistory(); this.setupEventListeners()
LoadHistoryDone(ok) ==
    /\ initPc = "loadHistory"
    /\ translationHistory' = LoadTranslationHistory(ok)
    /\ lastLog' = IF ok THEN "none" ELSE "Failed to load translation history:"
    /\ initPc' = "ready"
    /\ fromEmpty' = (translationHistory' = <<>>)
    /\ baseSeq' = IF translationHistory' = <<>> THEN recordCalls ELSE 0
    /\ loadedFrom' = IF ok THEN lastApplied ELSE "unread"
    /\ lastSettled' = "none"
    /\ UNCHANGED <<rendered, settingsGhosts, lookupVars>>
    /\ UNCHANGED pageVars
    /\ UNCHANGED <<build, now, settings, resultsView, issued, requests, storage,
                   pendingWrites, uncaught, reopens, recordCalls, clears,
                   lastHistoryOp, lastApplied>>

\* translateBtn click / Ctrl+Enter: translateText(text) up to its await
ClickTranslate(text) ==
    /\ ListenersAttached
    /\ issued < MaxRequests
    /\ Len(pendingWrites) + Cardinality(OpenRequests) < MaxPending
    /\ resultsView' = "loading"
    /\ issued' = issued + 1
    /\ requests' = requests \cup
                     {[id |-> issued + 1, text |-> text, state |-> "sent",
                       reply |-> NoReply, responses |-> 0]}
    /\ lastLog' = "none"
    /\ lastSettled' = "none"
    /\ rendered' = <<>>
    /\ UNCHANGED <<settingsGhosts, lookupVars>>
    /\ UNCHANGED pageVars
    /\ UNCHANGED <<build, now, initPc, settings, translationHistory, storage,
                   pendingWrites, uncaught, reopens, recordCalls, clears,
                   baseSeq, fromEmpty, lastHistoryOp, lastApplied, loadedFrom>>

\* clearBtn click: clearTranslationResults()
ClickClear ==
    /\ ListenersAttached
    /\ resultsView # "empty"
    /\ resultsView' = "empty"
    /\ lastLog' = "none"
    /\ lastSettled' = "none"
    /\ rendered' = <<>>
    /\ UNCHANGED <<settingsGhosts, lookupVars>>
    /\ UNCHANGED pageVars
    /\ UNCHANGED <<build, now, initPc, settings, translationHistory, issued,
                   requests, storage, pendingWrites, uncaught, reopens,
                   recordCalls, clears, baseSeq, fromEmpty,
                   lastHistoryOp, lastApplied, loadedFrom>>

\* mutant of ClearHistory: the list is persisted before it is emptied
ClearHistoryPersistsOldList ==
    /\ translationHistory' = <<>>
    /\ pendingWrites' = Append(pendingWrites,
                                HistoryWrite(translationHistory, "clear"))
    /\ fromEmpty' = TRUE
    /\ baseSeq' = recordCalls
    /\ lastHistoryOp' = "clear"
    /\ lastLog' = "none"

\* clearHistory(), up to its await of chrome.storage.local.set
ClearHistory ==
    /\ translationHistory' = <<>>
    /\ pendingWrites' = Append(pendingWrites, HistoryWrite(<<>>, "clear"))
    /\ fromEmpty' = TRUE
    /\ baseSeq' = recordCalls
    /\ lastHistoryOp' = "clear"
    /\ lastLog' = "none"

\* clearHistoryBtn click
ClickClearHistory ==
    /\ ListenersAttached
    /\ Len(pendingWrites) + Cardinality(OpenRequests) < MaxPending
    /\ ClearHistory
    /\ lastSettled' = "none"
    /\ UNCHANGED <<rendered, settingsGhosts, lookupVars>>
    /\ UNCHANGED pageVars
    /\ UNCHANGED <<build, now, initPc, settings, resultsView, issued, requests,
                   storage, uncaught, reopens, recordCalls, clears,
                   lastApplied, loadedFrom>>

\* mutant of SendResponseCalls: background.ts calls sendResponse in the
\* listener as well as in the then callback
SendResponseCallsTwice(action) ==
    IF build = "background.ts"
    THEN IF action = "translateText" THEN 2 ELSE 0
    ELSE IF action = "getTabInfo" THEN 1 ELSE 0

\* the sendResponse calls the onMessage listener makes for one message:
\* background.ts has a branch for translateText only, background.js a case for
\* getTabInfo only
SendResponseCalls(action) ==
    IF build = "background.ts"
    THEN IF action = "translateText" THEN 1 ELSE 0
    ELSE IF action = "getTabInfo" THEN 1 ELSE 0

\* background.ts: onMessage answers translateText with translateText(request.text);
\* background.js: onMessage has no case for translateText, returns true and
\* never calls sendResponse
BackgroundOnMessage(r) ==
    /\ r \in requests
    /\ r.state = "sent"
    /\ requests' = (requests \ {r}) \cup
         {IF SendResponseCalls("translateText") > 0
          THEN [r EXCEPT !.state = "replied",
                         !.reply = [kind |-> "response",
                                    value |-> BackgroundTranslateText(r.text, now)],
                         !.responses = @ + SendResponseCalls("translateText")]
          ELSE [r EXCEPT !.state = "dropped"]}
    /\ lastLog' = "none"
    /\ lastSettled' = "none"
    /\ UNCHANGED <<rendered, settingsGhosts, lookupVars>>
    /\ UNCHANGED pageVars
    /\ UNCHANGED <<build, now, initPc, settings, translationHistory,
                   resultsView, issued, storage, pendingWrites, uncaught,
                   reopens, recordCalls, clears, baseSeq, fromEmpty,
                   lastHistoryOp, lastApplied, loadedFrom>>

\* the messaging channel calls sendMessage's callback with chrome.runtime.lastError
\* set, with no response, or with a response of another shape
ChannelFault(r, fault) ==
    /\ r \in requests
    /\ r.state = "sent"
    /\ requests' = (requests \ {r}) \cup
         {[r EXCEPT !.state = "replied",
                    !.reply = IF fault = "lastError" THEN [kind |-> "lastError"]
                              ELSE IF fault = "undefined"
                              THEN [kind |-> "response", value |-> Undefined]
                              ELSE [kind |-> "response", value |-> Malformed]]}
    /\ lastLog' = "none"
    /\ lastSettled' = "none"
    /\ UNCHANGED <<rendered, settingsGhosts, lookupVars>>
    /\ UNCHANGED pageVars
    /\ UNCHANGED <<build, now, initPc, settings, translationHistory,
                   resultsView, issued, storage, pendingWrites, uncaught,
                   reopens, recordCalls, clears, baseSeq, fromEmpty,
                   lastHistoryOp, lastApplied, loadedFrom>>

\* sendMessage's callback runs: translateText goes on after its await
Deliver(r) ==
    /\ r \in requests
    /\ r.state = "replied"
    /\ requests' = requests \ {r}
    /\ resultsView' = TranslateOutcome(r.reply)
    /\ lastLog' = IF TranslateOutcome(r.reply) = "failed"
                  THEN "Translation error:" ELSE "none"
    /\ IF TranslateSaves(r.reply)
       THEN SaveTranslationToHistory(r.reply.value)
       ELSE UNCHANGED <<translationHistory, pendingWrites, recordCalls,
                        lastHistoryOp>>
    /\ lastSettled' = "none"
    /\ rendered' = IF TranslateOutcome(r.reply) = "results"
                 THEN RenderCards(r.reply.value) ELSE <<>>
    /\ UNCHANGED <<settingsGhosts, lookupVars>>
    /\ UNCHANGED pageVars
    /\ UNCHANGED <<build, now, initPc, settings, issued, storage, uncaught,
                   reopens, clears, baseSeq, fromEmpty, lastApplied,
                   loadedFrom>>

\* a chrome.storage.local.set call completes: it is applied, or it is rejected
\* and the caller's catch block runs
WriteDone(k, ok) ==
    /\ k \in 1..Len(pendingWrites)
    /\ pendingWrites' = RemoveAt(pendingWrites, k)
    /\ IF ok
       THEN /\ storage' = [storage EXCEPT ![pendingWrites[k].key] =
                                              Stored(pendingWrites[k].value)]
            /\ lastApplied' = IF pendingWrites[k].key = "translationHistory"
                               THEN pendingWrites[k].op ELSE lastApplied
            /\ appliedSettingsCall' =
                  IF pendingWrites[k].key = "kanjiHelperSettings"
                  THEN pendingWrites[k].call ELSE appliedSettingsCall
            /\ lastLog' = "none"
            /\ UNCHANGED <<translationHistory, settings, uncaught>>
       ELSE /\ translationHistory' = OnWriteRejected(pendingWrites[k]).history
            /\ settings' = OnWriteRejected(pendingWrites[k]).settings
            /\ lastLog' = OnWriteRejected(pendingWrites[k]).lastLog
            /\ uncaught' = OnWriteRejected(pendingWrites[k]).uncaught
            /\ UNCHANGED <<storage, lastApplied, appliedSettingsCall>>
    /\ lastSettled' = IF ok THEN "applied" ELSE "rejected"
    /\ UNCHANGED <<rendered, settingsCalls, savedSettings, lookupVars>>
    /\ UNCHANGED pageVars
    /\ UNCHANGED <<build, now, initPc, resultsView, issued,
                   requests, reopens, recordCalls, clears, baseSeq, fromEmpty,
                   lastHistoryOp, loadedFrom>>

\* the user closes the popup and opens it again: new KanjiHelperPopup()
Reopen ==
    /\ reopens < MaxReopens
    /\ reopens' = reopens + 1
    /\ initPc' = "loadSettings"
    /\ settings' = DefaultSettings
    /\ translationHistory' = <<>>
    /\ resultsView' = "empty"
    /\ requests' = {}
    /\ lastLog' = "none"
    /\ pendingWrites' = [k \in 1..Len(pendingWrites) |->
                           [pendingWrites[k] EXCEPT !.live = FALSE]]
    /\ fromEmpty' = TRUE
    /\ baseSeq' = recordCalls
    /\ loadedFrom' = "none"
    /\ lastSettled' = "none"
    /\ rendered' = <<>>
    /\ UNCHANGED <<settingsGhosts, lookupVars>>
    /\ UNCHANGED pageVars
    /\ UNCHANGED <<build, now, issued, storage, uncaught, recordCalls, clears,
                   lastHistoryOp, lastApplied>>

(***************************************************************************)
(* popup.js: the settings.                                                 *)
(***************************************************************************)
SettingKeys == {"autoHide", "showReadings", "showMeanings"}

\* mutant of SettingsWrite: the defaults are persisted
SettingsWriteDefaults(s, call) ==
    [key |-> "kanjiHelperSettings", value |-> DefaultSettings, op |-> "settings",
     live |-> TRUE, call |-> call]

\* saveSettings: chrome.storage.local.set({ kanjiHelperSettings: this.settings })
SettingsWrite(s, call) ==
    [key |-> "kanjiHelperSettings", value |-> s, op |-> "settings",
     live |-> TRUE, call |-> call]

\* a toggle's change listener: this.settings[key] = e.target.checked;
\* this.saveSettings(), up to its await
ToggleSetting(key) ==
    /\ ListenersAttached
    /\ settingsCalls < MaxToggles
    /\ Len(pendingWrites) + Cardinality(OpenRequests) < MaxPending
    /\ settings' = [settings EXCEPT ![key] = ~settings[key]]
    /\ pendingWrites' = Append(pendingWrites,
                                SettingsWrite(settings', settingsCalls + 1))
    /\ settingsCalls' = settingsCalls + 1
    /\ savedSettings' = settings'
    /\ lastLog' = "none"
    /\ lastSettled' = "none"
    /\ UNCHANGED <<rendered, appliedSettingsCall, lookupVars>>
    /\ UNCHANGED pageVars
    /\ UNCHANGED <<build, now, initPc, translationHistory, resultsView, issued,
                   requests, storage, uncaught, reopens, recordCalls, clears,
                   baseSeq, fromEmpty, lastHistoryOp, lastApplied, loadedFrom>>

\* displayTranslationResults(result, container) for a result whose records are
\* of the shape it reads: those of content.js's translateText
HarnessDisplay(text) ==
    LET result == [originalText |-> text,
                   translations |-> ContentTranslateText(text),
                   timestamp |-> now] IN
    /\ initPc = "ready"
    /\ resultsView' = DisplayTranslationResults(result)
    /\ rendered' = RenderCards(result)
    /\ lastLog' = "none"
    /\ lastSettled' = "none"
    /\ UNCHANGED <<settingsGhosts, lookupVars>>
    /\ UNCHANGED pageVars
    /\ UNCHANGED <<build, now, initPc, settings, translationHistory, issued,
                   requests, storage, pendingWrites, uncaught, reopens,
                   recordCalls, clears, baseSeq, fromEmpty, lastHistoryOp,
                   lastApplied, loadedFrom>>

\* the clock moves on
Tick ==
    /\ now < MaxClock
    /\ now' = now + 1
    /\ UNCHANGED <<rendered, settingsGhosts, lookupVars>>
    /\ UNCHANGED pageVars
    /\ UNCHANGED <<build, initPc, settings, translationHistory, resultsView,
                   issued, requests, storage, pendingWrites, lastLog, uncaught,
                   reopens, recordCalls, clears, baseSeq, fromEmpty,
                   lastHistoryOp, lastApplied, loadedFrom, lastSettled>>

(***************************************************************************)
(* The history store driven call by call, each call awaited before the    *)
(* next one is made.                                                       *)
(***************************************************************************)
\* the result handed to the k-th record call: "a" and U+65E5 in turn
HarnessText(k) == IF k % 2 = 1 THEN <<97>> ELSE <<26085>>

\* await saveTranslationToHistory(result)
HarnessRecord ==
    /\ initPc = "ready"
    /\ pendingWrites = <<>>
    /\ recordCalls < MaxRecords
    /\ SaveTranslationToHistory(
          BackgroundTranslateText(HarnessText(recordCalls + 1), now))
    /\ lastLog' = "none"
    /\ lastSettled' = "none"
    /\ UNCHANGED <<rendered, settingsGhosts, lookupVars>>
    /\ UNCHANGED pageVars
    /\ UNCHANGED <<build, now, initPc, settings, resultsView, issued, requests,
                   storage, uncaught, reopens, clears, baseSeq,
                   fromEmpty, lastApplied, loadedFrom>>

\* await clearHistory()
HarnessClear ==
    /\ initPc = "ready"
    /\ pendingWrites = <<>>
    /\ clears < MaxClears
    /\ clears' = clears + 1
    /\ ClearHistory
    /\ lastSettled' = "none"
    /\ UNCHANGED <<rendered, settingsGhosts, lookupVars>>
    /\ UNCHANGED pageVars
    /\ UNCHANGED <<build, now, initPc, settings, resultsView, issued, requests,
                   storage, uncaught, reopens, recordCalls,
                   lastApplied, loadedFrom>>

\* the awaited write is applied
HarnessWriteDone == WriteDone(1, TRUE)

(***************************************************************************)
(* background: the context menu; content.js: the popup on the page.        *)
(***************************************************************************)
\* the action the background's onClicked listener names in its message
MenuAction == IF build = "background.ts" THEN "showTranslation" ELSE "translateText"

\* chrome.contextMenus.onClicked: the item is chosen on a selection
ContextMenuClick(text) ==
    /\ menuClicks < MaxMenuClicks
    /\ menuClicks' = menuClicks + 1
    /\ tabMessages' =
          IF build = "background.ts" /\ text = <<>>
          THEN tabMessages
          ELSE tabMessages \cup
                  {[click |-> menuClicks + 1, action |-> MenuAction, text |-> text]}
    /\ UNCHANGED <<pageTime, popups, timers, created, lastReceived>>
    /\ UNCHANGED popupVars

\* mutant of RemoveExistingPopup: the existing popup stays in the document
RemoveExistingPopupNothing(elements) == elements

\* removeExistingPopup()
RemoveExistingPopup(elements) ==
    Remove(elements, GetElementById(elements).element)

\* mutant of TimerDue: the callback is set a second late
TimerDueLate(t) == t + AutoHideDelay + 1

\* when the callback of setTimeout(..., 10000) set at second t is due
TimerDue(t) == t + AutoHideDelay

\* createTranslationPopup(text, x, y)
CreateTranslationPopup(text) ==
    IF Len(ContentTranslateText(text)) = 0
    THEN /\ popups' = RemoveExistingPopup(popups)
         /\ UNCHANGED <<timers, created>>
    ELSE /\ created' = created + 1
         /\ popups' = Append(RemoveExistingPopup(popups),
                             [element |-> created + 1, text |-> text,
                              cards |-> Len(ContentTranslateText(text)),
                              since |-> pageTime])
         /\ timers' = timers \cup
                         {[element |-> created + 1, due |-> TimerDue(pageTime)]}

\* chrome.runtime.onMessage listener of the content script
ContentOnMessage(m) ==
    /\ m \in tabMessages
    /\ tabMessages' = tabMessages \ {m}
    /\ IF m.action = "translateText"
       THEN CreateTranslationPopup(m.text)
       ELSE UNCHANGED <<popups, timers, created>>
    /\ lastReceived' = [click |-> m.click, action |-> m.action, text |-> m.text,
                        before |-> pagePopup.element,
                        popup |-> pagePopup'.element]
    /\ UNCHANGED <<pageTime, menuClicks>>
    /\ UNCHANGED popupVars

\* the callback of setTimeout: popup.remove() if the document holds an element
\* with the popup's id; remove() of an element that is not in the document does
\* nothing
AutoHide(timer) ==
    /\ timer \in timers
    /\ timer.due <= pageTime
    /\ timers' = timers \ {timer}
    /\ popups' = IF pagePopup # NoPopup
                 THEN Remove(popups, timer.element)
                 ELSE popups
    /\ UNCHANGED <<pageTime, menuClicks, tabMessages, created, lastReceived>>
    /\ UNCHANGED popupVars

\* mutant of DocumentClick: the listener does not look at event.target
DocumentClickAnywhere(target) ==
    /\ pagePopup # NoPopup
    /\ popups' = Remove(popups, pagePopup.element)
    /\ lastReceived' = [click |-> 0, event |-> target]
    /\ UNCHANGED <<pageTime, menuClicks, tabMessages, timers, created>>
    /\ UNCHANGED popupVars

\* document click listener: a click outside the popup removes it, one inside
\* does not; the close button removes the popup it belongs to
DocumentClick(target) ==
    /\ pagePopup # NoPopup
    /\ popups' = IF target \in {"outside", "closeButton"}
                 THEN Remove(popups, pagePopup.element)
                 ELSE popups
    /\ lastReceived' = [click |-> 0, event |-> target]
    /\ UNCHANGED <<pageTime, menuClicks, tabMessages, timers, created>>
    /\ UNCHANGED popupVars

\* document keydown listener, event.key === 'Escape'
Escape ==
    /\ pagePopup # NoPopup
    /\ popups' = RemoveExistingPopup(popups)
    /\ lastReceived' = [click |-> 0, event |-> "Escape"]
    /\ UNCHANGED <<pageTime, menuClicks, tabMessages, timers, created>>
    /\ UNCHANGED popupVars

\* a second passes; a callback that is due runs before the next second begins
PageTick ==
    /\ pageTime < MaxPageTime
    /\ \A timer \in timers : timer.due > pageTime
    /\ pageTime' = pageTime + 1
    /\ UNCHANGED <<menuClicks, tabMessages, popups, timers, created,
                   lastReceived>>
    /\ UNCHANGED popupVars

vars == <<popupVars, pageVars>>

Init == PopupInit /\ PageInit

Next ==
    \/ \E ok \in BOOLEAN : LoadSettingsDone(ok)
    \/ \E ok \in BOOLEAN : LoadHistoryDone(ok)
    \/ \E text \in Texts : ClickTranslate(text)
    \/ ClickClear
    \/ ClickClearHistory
    \/ \E r \in requests : BackgroundOnMessage(r)
    \/ \E r \in requests, fault \in Faults : ChannelFault(r, fault)
    \/ \E r \in requests : Deliver(r)
    \/ \E k \in 1..MaxPending, ok \in BOOLEAN : WriteDone(k, ok)
    \/ Reopen

Spec == Init /\ [][Next]_vars

HistoryInit == Init /\ build = "background.ts"

HistoryNext ==
    \/ LoadSettingsDone(TRUE)
    \/ LoadHistoryDone(TRUE)
    \/ HarnessRecord
    \/ HarnessClear
    \/ HarnessWriteDone
    \/ Reopen

SpecHistory == HistoryInit /\ [][HistoryNext]_vars

\* settings records storage may hold: any of the three keys may be missing
PersistedSettings ==
    {Absent} \cup
    {Stored(r) : r \in UNION {[keys -> BOOLEAN] : keys \in SUBSET SettingKeys}}

SettingsInit ==
    /\ \E persisted \in PersistedSettings : PopupInitFrom(persisted)
    /\ build = "background.ts"
    /\ PageInit

SettingsNext ==
    \/ \E ok \in BOOLEAN : LoadSettingsDone(ok)
    \/ LoadHistoryDone(TRUE)
    \/ \E key \in SettingKeys : ToggleSetting(key)
    \/ \E text \in Texts : HarnessDisplay(text)
    \/ \E k \in 1..MaxPending, ok \in BOOLEAN : WriteDone(k, ok)
    \/ Reopen

SpecSettings == SettingsInit /\ [][SettingsNext]_vars

(***************************************************************************)
(* translateText called on texts built from the code points around the     *)
(* ranges.                                                                 *)
(***************************************************************************)
\* space, "a", U+303F U+3040 U+309F U+30A0 U+30FF U+3100, U+4DFF U+4E00 U+9FAF
\* U+9FB0, U+6C34 U+706B U+65E5 U+672C (in every dictionary), U+8A9E and U+52C9
\* (in that of content.js), U+20000
CodePoints ==
    {32, 97, 12351, 12352, 12447, 12448, 12543, 12544, 19967, 19968, 40879,
     40880, 27700, 28779, 26085, 26412, 35486, 21193, 131072}

\* popup.js, searchKanji: the keys of its kanjiDictionary
searchKanjiDictionaryKeys ==
    {26085, 26412, 20154, 23398, 26657, 29983, 20808, 24180, 26376, 26178,
     38291, 27700, 28779, 22303, 26408, 37329, 23665, 24029, 22823, 23567,
     28450, 23383, 31169, 35486}

\* searchKanji(query) for a query of one code point that is no reading and no
\* meaning: matchesChar, the query is a key
SearchFinds(c) == c \in searchKanjiDictionaryKeys

\* one more code point of the text
TypeChar(c) ==
    /\ Len(lookupText) < MaxLen
    /\ lookupText' = Append(lookupText, c)
    /\ lookupResult' = NoLookup
    /\ UNCHANGED <<build, now, initPc, settings, translationHistory,
                   resultsView, issued, requests, storage, pendingWrites,
                   lastLog, uncaught, reopens, recordCalls, clears, baseSeq,
                   fromEmpty, lastHistoryOp, lastApplied, loadedFrom,
                   lastSettled, rendered, settingsGhosts>>
    /\ UNCHANGED pageVars

\* getCharacterType and searchKanji on each code point of the text,
\* translateText(text) of content.js and translateText(text) of background.ts
Lookup ==
    /\ lookupResult = NoLookup
    /\ lookupResult' =
          [called |-> TRUE,
           types |-> [k \in 1..Len(lookupText) |-> getCharacterType(lookupText[k])],
           found |-> [k \in 1..Len(lookupText) |-> SearchFinds(lookupText[k])],
           content |-> ContentTranslateText(lookupText),
           background |-> BackgroundTranslateText(lookupText, now).translations]
    /\ UNCHANGED <<build, now, initPc, settings, translationHistory,
                   resultsView, issued, requests, storage, pendingWrites,
                   lastLog, uncaught, reopens, recordCalls, clears, baseSeq,
                   fromEmpty, lastHistoryOp, lastApplied, loadedFrom,
                   lastSettled, rendered, settingsGhosts, lookupText>>
    /\ UNCHANGED pageVars

LookupInit == Init /\ build = "background.ts"

LookupNext ==
    \/ \E c \in CodePoints : TypeChar(c)
    \/ Lookup

SpecLookup == LookupInit /\ [][LookupNext]_vars

\* the popup with background.ts while the clock runs
ClockInit == Init /\ build = "background.ts"

ClockNext ==
    \/ LoadSettingsDone(TRUE)
    \/ LoadHistoryDone(TRUE)
    \/ \E text \in Texts : ClickTranslate(text)
    \/ \E r \in requests : BackgroundOnMessage(r)
    \/ \E r \in requests : Deliver(r)
    \/ \E k \in 1..MaxPending : WriteDone(k, TRUE)
    \/ Tick

SpecClock == ClockInit /\ [][ClockNext]_vars

\* the popup with background.ts and its autoHide toggle; the reads of storage
\* may fail
StartupInit == Init /\ build = "background.ts"

StartupNext ==
    \/ \E ok \in BOOLEAN : LoadSettingsDone(ok)
    \/ \E ok \in BOOLEAN : LoadHistoryDone(ok)
    \/ \E text \in Texts : ClickTranslate(text)
    \/ ClickClearHistory
    \/ ToggleSetting("autoHide")
    \/ \E r \in requests : BackgroundOnMessage(r)
    \/ \E r \in requests : Deliver(r)
    \/ \E k \in 1..MaxPending : WriteDone(k, TRUE)
    \/ Reopen

SpecStartup == StartupInit /\ [][StartupNext]_vars

PageNext ==
    \/ \E text \in Selections : ContextMenuClick(text)
    \/ \E m \in tabMessages : ContentOnMessage(m)
    \/ \E timer \in timers : AutoHide(timer)
    \/ \E target \in {"inside", "outside", "closeButton"} : DocumentClick(target)
    \/ Escape
    \/ PageTick

SpecPage == Init /\ [][PageNext]_vars

\* the page of a user who has switched autoHide off in the popup, or has not
AutoHideOff == [DefaultSettings EXCEPT !.autoHide = FALSE]

AutoHideInit ==
    /\ \E persisted \in {Absent, Stored(AutoHideOff)} : PopupInitFrom(persisted)
    /\ PageInit

SpecAutoHide == AutoHideInit /\ [][PageNext]_vars

\* what the event loop and the browser do sooner or later; the user's clicks and
\* the failures of the channel are not among them
Fairness ==
    /\ WF_vars(\E ok \in BOOLEAN : LoadSettingsDone(ok))
    /\ WF_vars(\E ok \in BOOLEAN : LoadHistoryDone(ok))
    /\ WF_vars(\E r \in requests : BackgroundOnMessage(r))
    /\ WF_vars(\E r \in requests : Deliver(r))
    /\ WF_vars(\E k \in 1..MaxPending, ok \in BOOLEAN : WriteDone(k, ok))

FairSpec == Init /\ [][Next]_vars /\ Fairness

(***************************************************************************)
(* The history store (SpecHistory).                                        *)
(***************************************************************************)
\* C1: whatever record, clear and load operations have run, the in-memory
\* history holds at most 50 entries.
C1_HistoryAtMost50 == Len(translationHistory) <= HistoryLimit

\* more than 50 records were made, the popup was opened again and has loaded
\* a full history
C1_Witness ==
    /\ recordCalls > HistoryLimit
    /\ reopens > 0
    /\ initPc = "ready"
    /\ Len(translationHistory) = HistoryLimit

\* C2: n record calls after the history was empty leave exactly the min(n, 50)
\* results recorded last, the newest first; after 51 calls the 51st is first
\* and the 1st is gone.
C2_NewestFirst ==
    fromEmpty =>
        LET n == recordCalls - baseSeq IN
        /\ Len(translationHistory) = Min(n, HistoryLimit)
        /\ \A i \in 1..Len(translationHistory) :
              /\ translationHistory[i].seq = recordCalls - i + 1
              /\ translationHistory[i].originalText =
                     HarnessText(translationHistory[i].seq)
        /\ n = HistoryLimit + 1 =>
              /\ Len(translationHistory) = HistoryLimit
              /\ translationHistory[1].seq = baseSeq + HistoryLimit + 1
              /\ \A i \in 1..Len(translationHistory) :
                    translationHistory[i].seq # baseSeq + 1

\* the 51st record call after an empty history has returned
C2_Witness ==
    /\ fromEmpty
    /\ recordCalls - baseSeq = HistoryLimit + 1
    /\ Len(translationHistory) = HistoryLimit
    /\ translationHistory[1].seq = baseSeq + HistoryLimit + 1

(***************************************************************************)
(* The popup (Spec, FairSpec).                                             *)
(***************************************************************************)
\* the step in which clearHistory runs up to its await
ClearStep ==
    /\ lastHistoryOp' = "clear"
    /\ Len(pendingWrites') = Len(pendingWrites) + 1

\* the step in which loadTranslationHistory returns
LoadStep == initPc = "loadHistory" /\ initPc' = "ready"

\* the step in which the callback of request r runs
DeliverStep(r) ==
    /\ r \in requests
    /\ r.state = "replied"
    /\ r \notin requests'
    /\ reopens' = reopens

\* the step in which the write pendingWrites[k] is rejected
RejectStep(k) ==
    /\ k \in 1..Len(pendingWrites)
    /\ pendingWrites' = RemoveAt(pendingWrites, k)
    /\ lastSettled' = "rejected"

\* C3 as stated: after clear the list is empty, and a popup opened after a
\* clear has returned (with no record since) loads an empty history.
C3_ReloadAfterClearIsEmpty ==
    [][/\ ClearStep => translationHistory' = <<>>
       /\ (LoadStep /\ lastHistoryOp = "clear" /\ pendingWrites = <<>>)
             => translationHistory' = <<>>]_vars

\* C3, amended: after clear the list is empty, and a popup that loads its
\* history while the write of a clear is the last one storage applied loads an
\* empty history.
C3_ReloadAfterAppliedClearIsEmpty ==
    [][/\ ClearStep => translationHistory' = <<>>
       /\ (LoadStep /\ lastApplied = "clear") => translationHistory' = <<>>]_vars

\* a popup has loaded its history after storage applied the write of a clear
\* that came after persisted records
C3_Witness ==
    /\ initPc = "ready"
    /\ loadedFrom = "clear"
    /\ recordCalls > 0
    /\ translationHistory = <<>>

\* C4: a request answered with a result that carries a translations list is
\* displayed and saved as the first entry of the history.
C4_DisplayedAndSaved ==
    [][\A r \in requests :
          (/\ DeliverStep(r)
           /\ r.reply.kind = "response"
           /\ "translations" \in DOMAIN r.reply.value)
          => /\ resultsView' \in {"results", "noChars"}
             /\ recordCalls' = recordCalls + 1
             /\ translationHistory' # <<>>
             /\ translationHistory'[1].originalText = r.text
             /\ translationHistory'[1].translations = r.reply.value.translations]_vars

\* request id waits at await this.sendMessage(...)
Waiting(id) == \E r \in requests : r.id = id

\* C5: every request leaves the loading state: its callback runs (or the popup
\* is closed).
C5_LeavesLoading == \A id \in 1..MaxRequests : Waiting(id) ~> ~Waiting(id)

\* sendMessage rejected, no response, or a response without translations
BadReply(reply) ==
    \/ reply.kind = "lastError"
    \/ /\ reply.kind = "response"
       /\ (reply.value = Undefined \/ "translations" \notin DOMAIN reply.value)

\* C6: a rejected send, a missing response and a response without translations
\* end in "Translation failed", and the request is not sent again.
C6_FailedNoRetry ==
    [][\A r \in requests :
          (DeliverStep(r) /\ BadReply(r.reply))
          => /\ resultsView' = "failed"
             /\ lastLog' = "Translation error:"
             /\ issued' = issued
             /\ requests' = requests \ {r}]_vars

\* with background.js every reply comes from the channel: one has failed
C6_Witness ==
    /\ build = "background.js"
    /\ resultsView = "failed"
    /\ lastLog = "Translation error:"
    /\ issued > 0

\* C7: a request that fails leaves the history in memory and in storage as it
\* was, and only a request that is displayed creates an entry.
C7_FailureLeavesHistory ==
    [][/\ \A r \in requests :
             (DeliverStep(r) /\ resultsView' = "failed")
             => /\ translationHistory' = translationHistory
                /\ storage' = storage
                /\ pendingWrites' = pendingWrites
                /\ recordCalls' = recordCalls
       /\ recordCalls' # recordCalls
             => \E r \in requests :
                   /\ DeliverStep(r)
                   /\ resultsView' \in {"results", "noChars"}]_vars

\* a request has failed on displayTranslationResults (a result with records
\* from background.ts) while the history held an entry
C7_Witness ==
    /\ build = "background.ts"
    /\ resultsView = "failed"
    /\ lastLog = "Translation error:"
    /\ translationHistory # <<>>
    /\ \A r \in requests : r.state = "sent"

\* C8: when the write of a record is rejected, the history in memory stays as
\* it is, the failure is logged and no exception leaves the handler.
C8_WriteFailureOnlyLogged ==
    [][\A k \in 1..Len(pendingWrites) :
          (/\ RejectStep(k)
           /\ pendingWrites[k].op = "record"
           /\ pendingWrites[k].live)
          => /\ translationHistory' = translationHistory
             /\ lastLog' = "Failed to save translation history:"
             /\ ~uncaught']_vars

\* the write of the newest entry was rejected and the entry is still there
C8_Witness ==
    /\ lastSettled = "rejected"
    /\ lastLog = "Failed to save translation history:"
    /\ translationHistory # <<>>
    /\ ~uncaught

(***************************************************************************)
(* The page (SpecPage).                                                    *)
(***************************************************************************)
\* the selection holds a hiragana, katakana or kanji character
HasJapanese(text) ==
    \E k \in 1..Len(text) :
        getCharacterType(text[k]) \in {"hiragana", "katakana", "kanji"}

\* the step in which the content script receives message m
ReceiveStep(m) == m \in tabMessages /\ m \notin tabMessages'

\* C9: the message the background sends for a click on a selection with
\* Japanese characters makes the content script create a popup for it.
C9_MenuClickCreatesPopup ==
    [][\A m \in tabMessages :
          (ReceiveStep(m) /\ HasJapanese(m.text))
          => /\ pagePopup' # NoPopup
             /\ pagePopup'.text = m.text
             /\ created' = created + 1]_vars

TimerStep == timers' \subseteq timers /\ timers' # timers

\* C11: while the persisted settings have autoHide off, the timer of a popup
\* does not remove it.
C11_AutoHideOffKeepsPopup ==
    [][(/\ TimerStep
        /\ storage.kanjiHelperSettings.present
        /\ ~storage.kanjiHelperSettings.value.autoHide
        /\ pagePopup # NoPopup)
       => pagePopup' = pagePopup]_vars

(***************************************************************************)
(* The settings of the popup (SpecSettings).                               *)
(***************************************************************************)
\* the step in which displayTranslationResults fills the container with cards
RenderStep == rendered' # <<>> /\ rendered' # rendered

EventStep(event) ==
    /\ lastReceived' = [click |-> 0, event |-> event]
    /\ lastReceived' # lastReceived

\* C13: with a popup on the page, a click outside it and an Escape keypress
\* remove it, and a click inside it, not on its close button, leaves it.
C13_ClickAndEscape ==
    [][pagePopup # NoPopup =>
          /\ EventStep("outside") => pagePopup' = NoPopup
          /\ EventStep("Escape") => pagePopup' = NoPopup
          /\ EventStep("inside") => pagePopup' = pagePopup]_vars

\* a popup is still on the page after a click inside it, and an earlier popup
\* is gone
C13_Witness ==
    /\ lastReceived = [click |-> 0, event |-> "inside"]
    /\ pagePopup # NoPopup
    /\ pagePopup.element > 1

(***************************************************************************)
(* The settings store (SpecSettings).                                      *)
(***************************************************************************)
\* the step in which loadSettings returns
LoadSettingsStep == initPc = "loadSettings" /\ initPc' = "loadHistory"

\* C14 as stated: once saveSettings has returned, loadSettings leaves the
\* settings that were saved last.
C14_SaveThenLoad ==
    [][(LoadSettingsStep /\ settingsCalls > 0 /\ pendingWrites = <<>>)
       => settings' = savedSettings]_vars

\* C14, amended: when the write of the last saveSettings call is the one storage
\* applied last and the read succeeds, loadSettings leaves the settings that
\* were saved.
C14_AppliedSaveThenLoad ==
    [][(/\ LoadSettingsStep
        /\ lastLog' # "Failed to load settings:"
        /\ settingsCalls > 0
        /\ appliedSettingsCall = settingsCalls)
       => settings' = savedSettings]_vars

\* a popup opened after all three toggles were off and saved has loaded them
C14_Witness ==
    /\ reopens > 0
    /\ initPc = "ready"
    /\ settingsCalls > 0
    /\ appliedSettingsCall = settingsCalls
    /\ savedSettings = [autoHide |-> FALSE, showReadings |-> FALSE,
                        showMeanings |-> FALSE]
    /\ settings = savedSettings

\* C15: loadSettings leaves, for each key, the persisted value when the
\* persisted record has the key and the default TRUE when it has not or when
\* nothing is persisted.
C15_DefaultsOverridden ==
    [][(LoadSettingsStep /\ lastLog' # "Failed to load settings:")
       => /\ DOMAIN settings' = SettingKeys
          /\ \A key \in SettingKeys :
                settings'[key] =
                   IF /\ storage.kanjiHelperSettings.present
                      /\ key \in DOMAIN storage.kanjiHelperSettings.value
                   THEN storage.kanjiHelperSettings.value[key]
                   ELSE TRUE]_vars

\* a record with showReadings FALSE and no autoHide was loaded
C15_Witness ==
    /\ initPc = "loadHistory"
    /\ lastLog = "none"
    /\ storage.kanjiHelperSettings.present
    /\ DOMAIN storage.kanjiHelperSettings.value = {"showReadings"}
    /\ settings = [autoHide |-> TRUE, showReadings |-> FALSE,
                   showMeanings |-> TRUE]

\* C16: a rejected write of the settings is logged and leaves the settings in
\* memory as toggled, a failed read is logged and leaves the defaults, and no
\* exception leaves the handler.
C16_SettingsFailureOnlyLogged ==
    [][/\ \A k \in 1..Len(pendingWrites) :
             (/\ RejectStep(k)
              /\ pendingWrites[k].op = "settings"
              /\ pendingWrites[k].live)
             => /\ settings' = settings
                /\ pendingWrites[k].call = settingsCalls
                      => settings' = savedSettings
                /\ lastLog' = "Failed to save settings:"
                /\ ~uncaught'
       /\ (LoadSettingsStep /\ lastLog' = "Failed to load settings:")
             => settings' = DefaultSettings /\ ~uncaught']_vars

\* the write of a toggled record was rejected and the record is still in memory
C16_Witness ==
    /\ lastSettled = "rejected"
    /\ lastLog = "Failed to save settings:"
    /\ settings = savedSettings
    /\ settings # DefaultSettings
    /\ ~uncaught

(***************************************************************************)
(* The background's answers (Spec).                                        *)
(***************************************************************************)
\* C17: the background has called sendResponse at most once for each
\* translateText request.
C17_AtMostOneResponse == \A r \in requests : r.responses <= 1

\* background.ts has answered a request
C17_Witness ==
    /\ build = "background.ts"
    /\ \E r \in requests :
          /\ r.state = "replied"
          /\ r.responses = 1
          /\ r.reply.kind = "response"

(***************************************************************************)
(* Classification and lookup (SpecLookup).                                 *)
(***************************************************************************)
\* [U+3040, U+309F], [U+30A0, U+30FF], [U+4E00, U+9FAF]
InHiraganaRange(c) == 12352 <= c /\ c <= 12447
InKatakanaRange(c) == 12448 <= c /\ c <= 12543
InKanjiRange(c) == 19968 <= c /\ c <= 40879

\* C18: getCharacterType returns kanji, hiragana and katakana exactly on the
\* three ranges and other elsewhere; U+3040 and U+309F are hiragana, U+303F and
\* U+30A0 are not.
C18_ClassifyRanges ==
    lookupResult.called =>
       \A k \in 1..Len(lookupText) :
          LET c == lookupText[k]
              type == lookupResult.types[k] IN
          /\ type = "kanji" <=> InKanjiRange(c)
          /\ type = "hiragana" <=> InHiraganaRange(c)
          /\ type = "katakana" <=> InKatakanaRange(c)
          /\ type = "other" <=>
                ~(InKanjiRange(c) \/ InHiraganaRange(c) \/ InKatakanaRange(c))
          /\ c \in {12352, 12447} => type = "hiragana"
          /\ c \in {12351, 12448} => type # "hiragana"

\* U+3040, U+309F and U+30A0 have been classified
C18_Witness ==
    /\ lookupResult.called
    /\ lookupText = <<12352, 12447, 12448>>
    /\ lookupResult.types = <<"hiragana", "hiragana", "katakana">>

\* the characters of a list of records
Characters(records) == [k \in 1..Len(records) |-> records[k].character]

IsJapanese(c) == InKanjiRange(c) \/ InHiraganaRange(c) \/ InKatakanaRange(c)

\* the code points /\s/ matches
WhitespaceCodePoints ==
    {9, 10, 11, 12, 13, 32, 160, 5760, 8232, 8233, 8239, 8287, 12288, 65279}
       \cup (8192..8202)

\* the code points of a text that are not whitespace, in order
NonWhitespace(text) ==
    LET Keep(c) == c \notin WhitespaceCodePoints IN
    SelectSeq(text, Keep)

\* the code points of a text in the three ranges, in order
Japanese(text) == SelectSeq(text, IsJapanese)

\* C19 as stated: both translateText functions return one record for each
\* code point that is not whitespace, in the order of the text.
C19_OnePerNonWhitespace ==
    lookupResult.called =>
       /\ Characters(lookupResult.content) = NonWhitespace(lookupText)
       /\ Characters(lookupResult.background) = NonWhitespace(lookupText)

\* C19, amended: both translateText functions return exactly one record for
\* each kanji, hiragana and katakana code point, in the order of the text, and
\* none for whitespace; content.js returns one for each code point that is not
\* whitespace; the empty text gives no record and U+6C34 U+0020 U+706B the two
\* records of U+6C34 and U+706B.
C19_OnePerJapanese ==
    lookupResult.called =>
       LET InRanges(r) == IsJapanese(r.character) IN
       /\ Characters(SelectSeq(lookupResult.content, InRanges)) = Japanese(lookupText)
       /\ Characters(lookupResult.background) = Japanese(lookupText)
       /\ Characters(lookupResult.content) = NonWhitespace(lookupText)
       /\ lookupText = <<>> =>
             lookupResult.content = <<>> /\ lookupResult.background = <<>>
       /\ lookupText = <<27700, 32, 28779>> =>
             /\ Characters(lookupResult.content) = <<27700, 28779>>
             /\ Characters(lookupResult.background) = <<27700, 28779>>
             /\ \A k \in 1..2 : lookupResult.content[k].inDictionary

\* translateText was called with U+6C34 U+0020 U+706B
C19_Witness ==
    /\ lookupResult.called
    /\ lookupText = <<27700, 32, 28779>>
    /\ Len(lookupResult.content) = 2
    /\ Len(lookupResult.background) = 2

\* C20: no record is returned for a code point classified other.
C20_NoRecordForOther ==
    lookupResult.called =>
       /\ \A k \in 1..Len(lookupResult.content) :
             lookupResult.content[k].type \in {"kanji", "hiragana", "katakana"}
       /\ \A k \in 1..Len(lookupResult.background) :
             IsJapanese(lookupResult.background[k].character)

(***************************************************************************)
(* The records of translateText (SpecLookup).                              *)
(***************************************************************************)
\* C21: a record of content.js's translateText has inDictionary exactly when
\* its type is kanji and its character is a key of kanjiDictionary; a text of
\* one code point of [U+4E00, U+9FAF] that is not a key gives exactly one
\* record, of type kanji and not inDictionary.
C21_InDictionaryFlag ==
    lookupResult.called =>
       /\ \A k \in 1..Len(lookupResult.content) :
             lookupResult.content[k].inDictionary <=>
                /\ lookupResult.content[k].type = "kanji"
                /\ lookupResult.content[k].character \in kanjiDictionaryKeys
       /\ (/\ Len(lookupText) = 1
           /\ InKanjiRange(lookupText[1])
           /\ lookupText[1] \notin kanjiDictionaryKeys)
          => /\ Len(lookupResult.content) = 1
             /\ lookupResult.content[1].character = lookupText[1]
             /\ lookupResult.content[1].type = "kanji"
             /\ ~lookupResult.content[1].inDictionary

\* translateText was called with U+4E00, which is no key, and with a key
C21_Witness ==
    /\ lookupResult.called
    /\ lookupText = <<19968, 27700>>
    /\ ~lookupResult.content[1].inDictionary
    /\ lookupResult.content[2].inDictionary

\* C22: no record of either translateText has both no readings and no
\* meanings: a record that is not inDictionary carries the placeholder meaning
\* of its category.
C22_NeverEmptyAndUnlabeled ==
    lookupResult.called =>
       /\ \A k \in 1..Len(lookupResult.content) :
             /\ lookupResult.content[k].readings # <<>>
                   \/ lookupResult.content[k].meanings # <<>>
             /\ ~lookupResult.content[k].inDictionary
                   => lookupResult.content[k].meanings # <<>>
       /\ \A k \in 1..Len(lookupResult.background) :
             lookupResult.background[k].meaning # ""

\* the record the background's kanjiDict makes of a key
BackgroundEntry(c) ==
    [character |-> c, reading |-> kanjiDict[c].reading,
     meaning |-> kanjiDict[c].meaning]

\* C23: each translateText returns, for a key of the dictionary, the record of
\* the dictionary's entry, and for U+65E5 U+672C U+8A9E three such records in
\* order, the last with the meaning "language".
C23_DictionaryRecords ==
    lookupResult.called =>
       /\ \A k \in 1..Len(lookupResult.content) :
             lookupResult.content[k].character \in kanjiDictionaryKeys
             => LET r == lookupResult.content[k] IN
                /\ r.inDictionary
                /\ r.readings = kanjiDictionary[r.character].readings
                /\ r.meanings = kanjiDictionary[r.character].meanings
       /\ \A k \in 1..Len(lookupResult.background) :
             lookupResult.background[k].character \in kanjiDictKeys
             => lookupResult.background[k] =
                   BackgroundEntry(lookupResult.background[k].character)
       /\ lookupText = <<26085, 26412, 35486>>
          => /\ Characters(lookupResult.content) = lookupText
             /\ \A k \in 1..3 : lookupResult.content[k].inDictionary
             /\ \E m \in 1..Len(lookupResult.content[3].meanings) :
                   lookupResult.content[3].meanings[m] = "language"
             /\ Characters(lookupResult.background) = lookupText
             /\ \A k \in 1..3 : lookupResult.background[k].character \in kanjiDictKeys

\* C25: the three dictionaries have the same keys: a character searchKanji
\* finds is inDictionary for content.js and a key for background.ts, and the
\* other way round.
C25_SameKeys ==
    lookupResult.called =>
       \A k \in 1..Len(lookupText) :
          /\ lookupResult.found[k] <=> lookupText[k] \in kanjiDictionaryKeys
          /\ lookupResult.found[k] <=> lookupText[k] \in kanjiDictKeys

(***************************************************************************)
(* The ids of the history entries (SpecClock).                             *)
(***************************************************************************)
\* C24: no two entries of the history have the same id.
C24_DistinctIds ==
    \A i, j \in 1..Len(translationHistory) :
       i # j => translationHistory[i].id # translationHistory[j].id

(***************************************************************************)
(* The start of the popup (SpecStartup).                                   *)
(***************************************************************************)
\* C26: a translate request, a clearHistory call, a toggle and a record happen
\* only when both loads have returned, and loadTranslationHistory returns into
\* a history in memory that holds no entry.
C26_ListenersAfterLoads ==
    [][/\ (\/ issued' # issued
           \/ ClearStep
           \/ settingsCalls' # settingsCalls
           \/ recordCalls' # recordCalls)
          => initPc = "ready" /\ initPc' = "ready"
       /\ LoadStep => translationHistory = <<>>
       /\ LoadSettingsStep => settings = DefaultSettings]_vars

\* a popup opened again has loaded the entry recorded before and sent a request
C26_Witness ==
    /\ reopens > 0
    /\ initPc = "ready"
    /\ loadedFrom = "record"
    /\ translationHistory # <<>>
    /\ requests # {}

(***************************************************************************)
(* Storage and memory (SpecClock: every write is applied, in any order).   *)
(***************************************************************************)
\* what chrome.storage.local holds under translationHistory
PersistedHistory ==
    IF storage.translationHistory.present
    THEN storage.translationHistory.value ELSE <<>>

\* C27: storage holds at most 50 entries, and when a write has been applied
\* and none is pending it holds the history that is in memory.
C27_PersistedEqualsMemory ==
    /\ Len(PersistedHistory) <= HistoryLimit
    /\ (initPc = "ready" /\ pendingWrites = <<>> /\ lastApplied # "none")
       => PersistedHistory = translationHistory

(***************************************************************************)
(* The popup elements of the page (SpecPage).                              *)
(***************************************************************************)
\* C28: the document never holds more than one popup element.
C28_AtMostOnePopup == Len(popups) <= 1

\* a translate message arrived while a popup was in the document: the new
\* popup has taken its place and is the only one
C28_Witness ==
    /\ "before" \in DOMAIN lastReceived
    /\ lastReceived.action = "translateText"
    /\ lastReceived.before > 0
    /\ lastReceived.popup > lastReceived.before
    /\ Len(popups) = 1
    /\ popups[1].element = lastReceived.popup
====
